---- MODULE Spec2Model ----
(***************************************************************************)
(* Phylogeny Web Analyzer: the Newick reader, the ASCII tree renderer and  *)
(* the Home component of frontend/src/app/page.tsx, and the identity       *)
(* calculator, the UPGMA clusterer and the Newick writer of the backend as *)
(* the design document describes them.                                     *)
(*                                                                         *)
(* A string is a sequence of one-character strings; positions handed to    *)
(* the string helpers are 0-based, as in the TypeScript source.  A number  *)
(* is an exact decimal [m |-> mantissa, e |-> fractional digits], meaning  *)
(* m / 10^e, kept normalised (no trailing zero in the fraction), so that   *)
(* two numbers are equal exactly when their records are equal.  Every      *)
(* decimal text of the bounded inputs has far fewer than 15 significant    *)
(* digits, so distinct decimals are distinct doubles.                      *)
(***************************************************************************)
EXTENDS Integers, Sequences, FiniteSets, TLC

VARIABLES
    pc,        \* position in the pipeline that is being run
    source,    \* the tree handed to the Newick writer (NoTree when unused)
    newick,    \* results.tree_newick, the text handed to parseNewick
    tree,      \* the value parseNewick returned (NoTree before)
    ascii,     \* the text renderTreeAscii returned
    matrix,    \* clusterer: the distance matrix it is called with
    dist,      \* clusterer: the current distances between active clusters
    clusters,  \* clusterer: the active clusters, in index order
    merges,    \* clusterer: the merge steps of the current run
    result,    \* clusterer: the tree the current run returned
    run,       \* clusterer: 1 in the first run on the matrix, 2 in the second
    first,     \* clusterer: the tree the first run returned
    residuesA, \* identity calculator: the residues of the first sequence
    residuesB, \* identity calculator: the residues of the second sequence
    score,     \* identity calculator: identity(a, b)
    swapped,   \* identity calculator: identity(b, a)
    accessions,   \* page: the text of the accession box
    loading,      \* page: an analysis is under way
    results,      \* page: the data of the last response (NoResults: null)
    error,        \* page: the message of the error banner (NoError: '')
    inputMode,    \* page: the tab shown, "uniprot" or "fasta"
    selectedFile, \* page: the file chosen for upload (NoFile: null)
    requests      \* page: the requests posted and not yet answered

vars ==
    <<pc, source, newick, tree, ascii,
      matrix, dist, clusters, merges, result, run, first,
      residuesA, residuesB, score, swapped,
      accessions, loading, results, error, inputMode, selectedFile, requests>>

-----------------------------------------------------------------------------
(* Characters and strings *)

Digits == {"0", "1", "2", "3", "4", "5", "6", "7", "8", "9"}

DigitVal(c) ==
    CASE c = "0" -> 0 [] c = "1" -> 1 [] c = "2" -> 2 [] c = "3" -> 3
      [] c = "4" -> 4 [] c = "5" -> 5 [] c = "6" -> 6 [] c = "7" -> 7
      [] c = "8" -> 8 [] c = "9" -> 9

DigitChar(d) ==
    CASE d = 0 -> "0" [] d = 1 -> "1" [] d = 2 -> "2" [] d = 3 -> "3"
      [] d = 4 -> "4" [] d = 5 -> "5" [] d = 6 -> "6" [] d = 7 -> "7"
      [] d = 8 -> "8" [] d = 9 -> "9"

\* The box-drawing characters of the renderer, one sequence element each.
BoxUpRight == "U+2514"
BoxVertRight == "U+251C"
BoxHoriz == "U+2500"
BoxVert == "U+2502"

\* name: null of a node that parseNode never named
Null == <<"null">>

InternalLabel == <<"I", "n", "t", "e", "r", "n", "a", "l">>

InternalNodeLabel == InternalLabel \o <<" ", "N", "o", "d", "e">>

IsWhiteSpace(c) == c = " "

RECURSIVE trimStart(_)
trimStart(s) ==
    IF s # <<>> /\ IsWhiteSpace(Head(s)) THEN trimStart(Tail(s)) ELSE s

RECURSIVE trimEnd(_)
trimEnd(s) ==
    IF s # <<>> /\ IsWhiteSpace(s[Len(s)])
    THEN trimEnd(SubSeq(s, 1, Len(s) - 1))
    ELSE s

trim(s) == trimEnd(trimStart(s))

\* str.substring(a, b) for 0 <= a <= b <= length
substring(s, a, b) == SubSeq(s, a + 1, b)

\* str.substring(a)
substringFrom(s, a) == SubSeq(s, a + 1, Len(s))

\* str.indexOf(c): 0-based position of the first c, -1 when there is none
indexOf(s, c) ==
    IF \E i \in 1..Len(s) : s[i] = c
    THEN (CHOOSE i \in 1..Len(s) : s[i] = c /\ \A j \in 1..(i - 1) : s[j] # c) - 1
    ELSE -1

startsWith(s, c) == s # <<>> /\ s[1] = c

\* stripSemicolon removing every ';' the text ends in
RECURSIVE stripSemicolonAll(_)
stripSemicolonAll(s) ==
    IF s # <<>> /\ s[Len(s)] = ";" THEN stripSemicolonAll(SubSeq(s, 1, Len(s) - 1)) ELSE s

\* newick.replace(/;$/, '')
stripSemicolon(s) ==
    IF s # <<>> /\ s[Len(s)] = ";" THEN SubSeq(s, 1, Len(s) - 1) ELSE s

-----------------------------------------------------------------------------
(* Numbers *)

Zero == [m |-> 0, e |-> 0]

NaN == [m |-> 0, e |-> -1]

RECURSIVE Pow10(_)
Pow10(k) == IF k <= 0 THEN 1 ELSE 10 * Pow10(k - 1)

RECURSIVE Normal(_, _)
Normal(m, e) ==
    IF m = 0 THEN Zero
    ELSE IF e > 0 /\ m % 10 = 0 THEN Normal(m \div 10, e - 1)
    ELSE [m |-> m, e |-> e]

Abs(x) == IF x < 0 THEN -x ELSE x

\* the number of digit characters of s from 1-based position i on
RECURSIVE DigitRun(_, _)
DigitRun(s, i) ==
    IF i <= Len(s) /\ s[i] \in Digits THEN 1 + DigitRun(s, i + 1) ELSE 0

RECURSIVE DigitsValue(_)
DigitsValue(ds) ==
    IF ds = <<>> THEN 0
    ELSE 10 * DigitsValue(SubSeq(ds, 1, Len(ds) - 1)) + DigitVal(ds[Len(ds)])

RECURSIVE NatDigits(_)
NatDigits(n) ==
    IF n < 10 THEN <<DigitChar(n)>>
    ELSE Append(NatDigits(n \div 10), DigitChar(n % 10))

\* n written with exactly k digits (n < 10^k)
RECURSIVE PadDigits(_, _)
PadDigits(n, k) ==
    IF k = 0 THEN <<>>
    ELSE Append(PadDigits(n \div 10, k - 1), DigitChar(n % 10))

\* parseFloat(s): leading white space is skipped, then the longest prefix
\* [+-] digits [. digits] | [+-] . digits is read; NaN when there is none.
\* The inputs hold no exponent letter and no "Infinity".
parseFloat(s) ==
    LET t == trimStart(s)
        signed == t # <<>> /\ t[1] \in {"-", "+"}
        neg == t # <<>> /\ t[1] = "-"
        u == IF signed THEN Tail(t) ELSE t
        n1 == DigitRun(u, 1)
        hasDot == Len(u) > n1 /\ u[n1 + 1] = "."
        n2 == IF hasDot THEN DigitRun(u, n1 + 2) ELSE 0
        mant == DigitsValue(SubSeq(u, 1, n1) \o SubSeq(u, n1 + 2, n1 + 1 + n2))
    IN  IF n1 + n2 = 0 THEN NaN
        ELSE Normal(IF neg THEN -mant ELSE mant, n2)

\* orZero handing on whatever parseFloat returned
orZeroKeepNaN(x) == x

\* x || 0 for a number x: NaN, 0 and -0 are falsy
orZero(x) == IF x = NaN \/ x.m = 0 THEN Zero ELSE x

\* x.toFixed(4): the nearest multiple of 10^-4, written with 4 decimals (a
\* value of more than 4 decimals is rounded half up on its decimal digits)
toFixed4(x) ==
    LET a == Abs(x.m)
        n == IF x.e <= 4 THEN a * Pow10(4 - x.e)
             ELSE (a + (Pow10(x.e - 4) \div 2)) \div Pow10(x.e - 4)
    IN  (IF x.m < 0 THEN <<"-">> ELSE <<>>)
        \o NatDigits(n \div 10000) \o <<".">> \o PadDigits(n % 10000, 4)

-----------------------------------------------------------------------------
(* parseNewick *)

NoTree == [children |-> <<>>, name |-> <<"none">>, length |-> NaN]

\* const node: any = { children: [], name: null, length: 0 }
emptyNode == [children |-> <<>>, name |-> Null, length |-> Zero]

\* findEndParen taking the end of the text for the closing parenthesis
RECURSIVE findEndParenAtEnd(_, _, _)
findEndParenAtEnd(str, i, depth) ==
    IF i >= Len(str) THEN Len(str)
    ELSE IF str[i + 1] = "(" THEN findEndParenAtEnd(str, i + 1, depth + 1)
    ELSE IF str[i + 1] = ")"
         THEN IF depth - 1 = 0 THEN i ELSE findEndParenAtEnd(str, i + 1, depth - 1)
         ELSE findEndParenAtEnd(str, i + 1, depth)

\* findEndParen stopping at the first ')' whatever the depth
RECURSIVE findEndParenFirst(_, _, _)
findEndParenFirst(str, i, depth) ==
    IF i >= Len(str) THEN -1
    ELSE IF str[i + 1] = ")" THEN i
    ELSE findEndParenFirst(str, i + 1, depth)

\* the scan for the matching closing parenthesis, from position i at depth
RECURSIVE findEndParen(_, _, _)
findEndParen(str, i, depth) ==
    IF i >= Len(str) THEN -1
    ELSE IF str[i + 1] = "(" THEN findEndParen(str, i + 1, depth + 1)
    ELSE IF str[i + 1] = ")"
         THEN IF depth - 1 = 0 THEN i ELSE findEndParen(str, i + 1, depth - 1)
         ELSE findEndParen(str, i + 1, depth)

\* pushChild without the test current.trim()
pushChildAlways(children, current) == Append(children, trim(current))

\* pushChild handing on the child with the two characters of the
\* parentheses made up by blanks
pushChildPadded(children, current) ==
    IF trim(current) # <<>> THEN Append(children, trim(current) \o <<" ", " ">>)
    ELSE children

\* pushChild putting the child in front of the children found so far
pushChildFront(children, current) ==
    IF trim(current) # <<>> THEN <<trim(current)>> \o children ELSE children

\* if (current.trim()) children.push(current.trim())
pushChild(children, current) ==
    IF trim(current) # <<>> THEN Append(children, trim(current)) ELSE children

\* splitChildren splitting at every comma, whatever the depth
RECURSIVE splitChildrenAnyDepth(_, _, _, _, _)
splitChildrenAnyDepth(childrenStr, i, depth, current, children) ==
    IF i >= Len(childrenStr) THEN pushChild(children, current)
    ELSE LET char == childrenStr[i + 1] IN
         IF char = ","
         THEN splitChildrenAnyDepth(childrenStr, i + 1, depth, <<>>,
                                    pushChild(children, current))
         ELSE splitChildrenAnyDepth(childrenStr, i + 1, depth,
                                    Append(current, char), children)

\* the split of childrenStr at the commas of depth 0
RECURSIVE splitChildren(_, _, _, _, _)
splitChildren(childrenStr, i, depth, current, children) ==
    IF i >= Len(childrenStr) THEN pushChild(children, current)
    ELSE LET char == childrenStr[i + 1] IN
         IF char = "("
         THEN splitChildren(childrenStr, i + 1, depth + 1, Append(current, char), children)
         ELSE IF char = ")"
         THEN splitChildren(childrenStr, i + 1, depth - 1, Append(current, char), children)
         ELSE IF char = "," /\ depth = 0
         THEN splitChildren(childrenStr, i + 1, depth, <<>>, pushChild(children, current))
         ELSE splitChildren(childrenStr, i + 1, depth, Append(current, char), children)

\* x || 'Internal' for a string x
\* orInternal leaving the empty name as it is
orInternalKeepEmpty(x) == x

orInternal(x) == IF x = <<>> THEN InternalLabel ELSE x

\* internalName without the case of a ':' right after the ')'
internalNameColonFirst(afterParen) ==
    LET colonIdx == indexOf(afterParen, ":") IN
    IF colonIdx > 0 THEN orInternal(trim(substring(afterParen, 0, colonIdx)))
    ELSE orInternal(trim(afterParen))

\* node.name from the text after the matching ')'
internalName(afterParen) ==
    LET colonIdx == indexOf(afterParen, ":") IN
    IF colonIdx > 0 THEN orInternal(trim(substring(afterParen, 0, colonIdx)))
    ELSE IF colonIdx = 0 THEN InternalLabel
    ELSE orInternal(trim(afterParen))

\* node.length from the text after the matching ')'
internalLength(afterParen) ==
    LET colonIdx == indexOf(afterParen, ":") IN
    IF colonIdx > 0 THEN orZero(parseFloat(substringFrom(afterParen, colonIdx + 1)))
    ELSE IF colonIdx = 0 THEN orZero(parseFloat(substringFrom(afterParen, 1)))
    ELSE Zero

\* the name of a leaf
leafName(str) ==
    LET colonIdx == indexOf(str, ":") IN
    IF colonIdx > 0 THEN trim(substring(str, 0, colonIdx)) ELSE trim(str)

\* the length of a leaf
leafLength(str) ==
    LET colonIdx == indexOf(str, ":") IN
    IF colonIdx > 0 THEN orZero(parseFloat(substringFrom(str, colonIdx + 1))) ELSE Zero

RECURSIVE parseNode(_)
parseNode(str0) ==
    LET str == trim(str0) IN
    IF startsWith(str, "(")
    THEN LET endParen == findEndParen(str, 0, 0) IN
         IF endParen = -1 THEN emptyNode
         ELSE LET childrenStr == substring(str, 1, endParen)
                  children == splitChildren(childrenStr, 0, 0, <<>>, <<>>)
                  afterParen == substringFrom(str, endParen + 1)
              IN  [children |-> [k \in 1..Len(children) |-> parseNode(children[k])],
                   name |-> internalName(afterParen),
                   length |-> internalLength(afterParen)]
    ELSE [children |-> <<>>, name |-> leafName(str), length |-> leafLength(str)]

parseNewick(text) == parseNode(trim(stripSemicolon(text)))

-----------------------------------------------------------------------------
(* renderTreeAscii *)

\* connector with the two cases exchanged
connectorSwapped(isLast) ==
    IF isLast THEN <<BoxVertRight, BoxHoriz, BoxHoriz, " ">>
    ELSE <<BoxUpRight, BoxHoriz, BoxHoriz, " ">>

\* const connector = isLast ? '└── ' : '├── '
connector(isLast) ==
    IF isLast THEN <<BoxUpRight, BoxHoriz, BoxHoriz, " ">>
    ELSE <<BoxVertRight, BoxHoriz, BoxHoriz, " ">>

\* const name = tree.name || 'Internal Node'
displayName(t) ==
    IF t.name = Null \/ t.name = <<>> THEN InternalNodeLabel ELSE t.name

\* lengthText annotating positive lengths only (tree.length > 0)
lengthTextPositive(t) ==
    IF t.length.m > 0 THEN <<" ", "(">> \o toFixed4(t.length) \o <<")">> ELSE <<>>

\* const length = tree.length ? ` (${tree.length.toFixed(4)})` : ''
lengthText(t) ==
    IF t.length # Zero THEN <<" ", "(">> \o toFixed4(t.length) \o <<")">> ELSE <<>>

\* childPrefix with the two cases exchanged
childPrefixSwapped(prefix, isLast) ==
    prefix \o (IF isLast THEN <<BoxVert, " ", " ", " ">> ELSE <<" ", " ", " ", " ">>)

\* prefix + (isLast ? '    ' : '│   ')
childPrefix(prefix, isLast) ==
    prefix \o (IF isLast THEN <<" ", " ", " ", " ">> ELSE <<BoxVert, " ", " ", " ">>)

RECURSIVE renderTreeAscii(_, _, _)
RECURSIVE renderChildren(_, _, _)

\* renderTreeAscii writing the line of a node after the lines of its children
renderTreeAsciiChildrenFirst(t, prefix, isLast) ==
    (IF Len(t.children) > 0
     THEN renderChildren(t, childPrefix(prefix, isLast), 0)
     ELSE <<>>)
    \o (prefix \o connector(isLast) \o displayName(t) \o lengthText(t) \o <<"\n">>)

renderTreeAscii(t, prefix, isLast) ==
    (prefix \o connector(isLast) \o displayName(t) \o lengthText(t) \o <<"\n">>)
    \o (IF Len(t.children) > 0
        THEN renderChildren(t, childPrefix(prefix, isLast), 0)
        ELSE <<>>)

\* tree.children.forEach((child, index) => result += renderTreeAscii(...))
renderChildren(t, newPrefix, index) ==
    IF index >= Len(t.children) THEN <<>>
    ELSE renderTreeAscii(t.children[index + 1], newPrefix, index = Len(t.children) - 1)
         \o renderChildren(t, newPrefix, index + 1)

-----------------------------------------------------------------------------
(* The Newick writer of the design document, section 4.4.  A tree handed   *)
(* to it is a tagged node [kind, name, length, children]: a Leaf's name is *)
(* its sequence identifier, an Internal node's name is its optional label  *)
(* (NoLabel when absent).                                                  *)

NoLabel == <<>>

\* branch_length := decimal number (x >= 0), written exactly
formatNumber(x) ==
    NatDigits(x.m \div Pow10(x.e))
    \o (IF x.e > 0 THEN <<".">> \o PadDigits(x.m % Pow10(x.e), x.e) ELSE <<>>)

RECURSIVE writeSubtree(_)
RECURSIVE writeChildren(_, _)
\* subtree := leaf | internal, the branch length always written
writeSubtree(t) ==
    IF t.kind = "Leaf"
    THEN t.name \o <<":">> \o formatNumber(t.length)
    ELSE <<"(">> \o writeChildren(t.children, 1) \o <<")">>
         \o t.name \o <<":">> \o formatNumber(t.length)

\* subtree (',' subtree)* in the stored order
writeChildren(cs, k) ==
    IF k > Len(cs) THEN <<>>
    ELSE (IF k > 1 THEN <<",">> ELSE <<>>)
         \o writeSubtree(cs[k]) \o writeChildren(cs, k + 1)

\* tree := subtree ';' where the root's branch length is left out when it is 0
writeNewick(t) ==
    (IF t.length = Zero
     THEN (IF t.kind = "Leaf" THEN t.name
           ELSE <<"(">> \o writeChildren(t.children, 1) \o <<")">> \o t.name)
     ELSE writeSubtree(t))
    \o <<";">>

-----------------------------------------------------------------------------
(* The page's tree panel: renderTreeAscii(parseNewick(results.tree_newick)) *)
(* where the text is either hand-written or the writer's output for a tree. *)

MaxLen == 4

MaxNodes == 4

Alphabet == {"(", ")", ",", ":", ";", " ", "A", "1", "0", ".", "-"}

\* every text of at most MaxLen characters
ShortTexts == UNION {[1..k -> Alphabet] : k \in 0..MaxLen}

\* the texts of the design document's scenarios
UnclosedExample == <<"(", "A", ":", "1", ",", "B", ":", "2">>

RenderExample ==
    <<"(", "(", "A", ":", "0", ".", "1", ",", "B", ":", "0", ".", "2", ")",
      ":", "0", ".", "0", ")", ";">>

\* a children text with a blank segment
BlankSegmentExample == <<"(", "A", ",", ",", "B", ")">>

Texts == ShortTexts \cup {UnclosedExample, RenderExample, BlankSegmentExample}

LeafNames == {<<"A">>, <<"B">>, <<" ", "B">>}

Labels == {NoLabel, <<"X">>}

LeafLengths == {Zero, [m |-> 25, e |-> 2]}

InternalLengths == {Zero, [m |-> 3, e |-> 0]}

Leaves ==
    [kind : {"Leaf"}, name : LeafNames, length : LeafLengths, children : {<<>>}]

\* the trees of exactly n nodes, and the sequences of trees of n nodes in all
RECURSIVE TreesOfSize(_)
RECURSIVE ForestsOfSize(_)
TreesOfSize(n) ==
    IF n = 1 THEN Leaves
    ELSE [kind : {"Internal"}, name : Labels, length : InternalLengths,
          children : ForestsOfSize(n - 1)]

ForestsOfSize(n) ==
    IF n = 0 THEN {<<>>}
    ELSE UNION {{<<t>> \o f : t \in TreesOfSize(k), f \in ForestsOfSize(n - k)} :
                k \in 1..n}

Trees == UNION {TreesOfSize(n) : n \in 1..MaxNodes}

NoText == <<"none">>

clusterVars == <<matrix, dist, clusters, merges, result, run, first>>

identityVars == <<residuesA, residuesB, score, swapped>>

pageVars == <<accessions, loading, results, error, inputMode, selectedFile, requests>>

\* no score is calculated yet
NoScore == [n |-> 0, d |-> 0]

\* the identity calculator is not running
IdentityIdle ==
    /\ residuesA = <<>>
    /\ residuesB = <<>>
    /\ score = NoScore
    /\ swapped = NoScore

\* useState('P03314\nP17763\nP29991\nP27909\nP09866')
DefaultAccessions ==
    <<"P", "0", "3", "3", "1", "4", "\n", "P", "1", "7", "7", "6", "3", "\n",
      "P", "2", "9", "9", "9", "1", "\n", "P", "2", "7", "9", "0", "9", "\n",
      "P", "0", "9", "8", "6", "6">>

\* useState<any>(null)
NoResults == <<>>

\* useState('')
NoError == <<>>

\* useState<File | null>(null), and e.target.files?.[0] of an empty choice
NoFile == [name |-> <<>>, size |-> -1]

\* the state of the page after its first render
PageInitial ==
    /\ accessions = DefaultAccessions
    /\ loading = FALSE
    /\ results = NoResults
    /\ error = NoError
    /\ inputMode = "uniprot"
    /\ selectedFile = NoFile
    /\ requests = <<>>

\* the clusterer is not running
ClustererIdle ==
    /\ matrix = <<>>
    /\ dist = <<>>
    /\ clusters = <<>>
    /\ merges = <<>>
    /\ result = NoTree
    /\ run = 0
    /\ first = NoTree

InitText ==
    /\ pc = "newick"
    /\ source = NoTree
    /\ newick \in Texts

InitTree ==
    /\ pc = "tree"
    /\ source \in Trees
    /\ newick = NoText

Init ==
    /\ InitText \/ InitTree
    /\ tree = NoTree
    /\ ascii = NoText
    /\ ClustererIdle
    /\ IdentityIdle
    /\ PageInitial

\* the backend writes the tree as results.tree_newick
WriteNewick ==
    /\ pc = "tree"
    /\ newick' = writeNewick(source)
    /\ pc' = "newick"
    /\ UNCHANGED <<source, tree, ascii, clusterVars, identityVars, pageVars>>

\* parseNewick(results.tree_newick)
ParseNewick ==
    /\ pc = "newick"
    /\ tree' = parseNewick(newick)
    /\ pc' = "parsed"
    /\ UNCHANGED <<source, newick, ascii, clusterVars, identityVars, pageVars>>

\* renderTreeAscii(tree), with the default prefix '' and isLast true
RenderTree ==
    /\ pc = "parsed"
    /\ ascii' = renderTreeAscii(tree, <<>>, TRUE)
    /\ pc' = "rendered"
    /\ UNCHANGED <<source, newick, tree, clusterVars, identityVars, pageVars>>

Next == WriteNewick \/ ParseNewick \/ RenderTree

Spec == Init /\ [][Next]_vars

-----------------------------------------------------------------------------
(* The UPGMA clusterer of the design document, section 4.3.  Distances,    *)
(* heights and branch lengths are exact fractions [n |-> numerator,        *)
(* d |-> denominator] in lowest terms.  A node of the clusterer's tree is  *)
(* [kind, name, length, height, children].                                 *)

RECURSIVE GCD(_, _)
GCD(a, b) == IF b = 0 THEN a ELSE GCD(b, a % b)

Frac(n, d) == LET g == GCD(Abs(n), d) IN [n |-> n \div g, d |-> d \div g]

FracZero == [n |-> 0, d |-> 1]

FracAdd(x, y) == Frac(x.n * y.d + y.n * x.d, x.d * y.d)

FracSub(x, y) == Frac(x.n * y.d - y.n * x.d, x.d * y.d)

FracTimes(k, x) == Frac(k * x.n, x.d)

FracOver(x, k) == Frac(x.n, x.d * k)

FracLess(x, y) == x.n * y.d < y.n * x.d

MaxSeqs == 4

SeqIds == <<"A", "B", "C", "D", "E", "F">>

\* the distances of an alignment of length 4: 0, 1/4 and 1/2
DistValues == {FracZero, Frac(1, 4), Frac(1, 2)}

\* the symmetric matrices over n sequences, the diagonal 0
Matrices(n) ==
    LET Pairs == {p \in (1..n) \X (1..n) : p[1] < p[2]} IN
    {[i \in 1..n |-> [j \in 1..n |->
          IF i = j THEN FracZero
          ELSE IF i < j THEN f[<<i, j>>] ELSE f[<<j, i>>]]] :
      f \in [Pairs -> DistValues]}

\* the matrix of A = "ACGT", B = "ACGA", C = "TCGA"
TieExample ==
    << <<FracZero, Frac(1, 4), Frac(1, 2)>>,
       <<Frac(1, 4), FracZero, Frac(1, 4)>>,
       <<Frac(1, 2), Frac(1, 4), FracZero>> >>

NoPair == <<0, 0>>

\* the scan with <= for <, which keeps the last minimal pair
RECURSIVE scanPairsKeepLast(_, _, _, _, _)
scanPairsKeepLast(d, n, i, j, best) ==
    IF i >= n THEN best
    ELSE IF j > n THEN scanPairsKeepLast(d, n, i + 1, i + 2, best)
    ELSE scanPairsKeepLast(d, n, i, j + 1,
             IF best = NoPair \/ ~FracLess(d[best[1]][best[2]], d[i][j])
             THEN <<i, j>> ELSE best)

\* the scan of the pairs (i, j), i < j, row-major from (i, j) on, keeping the
\* first pair of minimal distance
RECURSIVE scanPairs(_, _, _, _, _)
scanPairs(d, n, i, j, best) ==
    IF i >= n THEN best
    ELSE IF j > n THEN scanPairs(d, n, i + 1, i + 2, best)
    ELSE scanPairs(d, n, i, j + 1,
             IF best = NoPair \/ FracLess(d[i][j], d[best[1]][best[2]])
             THEN <<i, j>> ELSE best)

findMinPair(d, n) == scanPairs(d, n, 1, 2, NoPair)

leafNode(id) ==
    [kind |-> "Leaf", name |-> <<id>>, length |-> FracZero,
     height |-> FracZero, children |-> <<>>]

leafCluster(k) == [members |-> {k}, node |-> leafNode(SeqIds[k]), height |-> FracZero]

\* the child's branch length with the operands exchanged
childLengthSwapped(h, child) == FracSub(child.height, h)

\* the child's branch length without the child's own height taken off
childLengthWhole(h, child) == h

\* height(m) - height(child)
childLength(h, child) == FracSub(h, child.height)

\* height(m) = distance(i, j) / 2
mergeHeight(d, i, j) == FracOver(d[i][j], 2)

\* the Internal node of clusters ci and cj merged at height h
mergeNode(ci, cj, h) ==
    [kind |-> "Internal", name |-> NoLabel, length |-> FracZero, height |-> h,
     children |-> <<[ci.node EXCEPT !.length = childLength(h, ci)],
                    [cj.node EXCEPT !.length = childLength(h, cj)]>>]

\* distance(m, k) = (|i| distance(i,k) + |j| distance(j,k)) / (|i| + |j|)
averageLinkage(cs, d, i, j, k) ==
    FracOver(FracAdd(FracTimes(Cardinality(cs[i].members), d[i][k]),
                     FracTimes(Cardinality(cs[j].members), d[j][k])),
             Cardinality(cs[i].members) + Cardinality(cs[j].members))

\* the indices of the clusters that stay, in their order
RECURSIVE remaining(_, _, _, _)
remaining(n, i, j, k) ==
    IF k > n THEN <<>>
    ELSE (IF k = i \/ k = j THEN <<>> ELSE <<k>>) \o remaining(n, i, j, k + 1)

\* mergedClusters giving the new cluster the members of cluster i alone
mergedClustersFirstMembers(cs, d, i, j) ==
    LET keep == remaining(Len(cs), i, j, 1)
        m == [members |-> cs[i].members,
              node |-> mergeNode(cs[i], cs[j], mergeHeight(d, i, j)),
              height |-> mergeHeight(d, i, j)]
    IN  [a \in 1..Len(keep) |-> cs[keep[a]]] \o <<m>>

\* the active clusters after merging i and j: the others in their order,
\* then the new cluster
mergedClusters(cs, d, i, j) ==
    LET keep == remaining(Len(cs), i, j, 1)
        m == [members |-> cs[i].members \cup cs[j].members,
              node |-> mergeNode(cs[i], cs[j], mergeHeight(d, i, j)),
              height |-> mergeHeight(d, i, j)]
    IN  [a \in 1..Len(keep) |-> cs[keep[a]]] \o <<m>>

\* the distances between the active clusters after merging i and j
mergedDistances(cs, d, i, j) ==
    LET keep == remaining(Len(cs), i, j, 1)
        n == Len(keep) + 1
    IN  [a \in 1..n |-> [b \in 1..n |->
            IF a = b THEN FracZero
            ELSE IF a < n /\ b < n THEN d[keep[a]][keep[b]]
            ELSE averageLinkage(cs, d, i, j, keep[IF a < n THEN a ELSE b])]]

pipelineVars == <<source, newick, tree, ascii>>

PipelineIdle ==
    /\ source = NoTree
    /\ newick = NoText
    /\ tree = NoTree
    /\ ascii = NoText

InitUPGMA ==
    /\ pc = "matrix"
    /\ \E n \in 0..MaxSeqs : matrix \in Matrices(n)
    /\ dist = <<>>
    /\ clusters = <<>>
    /\ merges = <<>>
    /\ result = NoTree
    /\ run = 1
    /\ first = NoTree
    /\ PipelineIdle
    /\ IdentityIdle
    /\ PageInitial

\* the call of a clusterer that takes no sequences for a tree to build
StartClusteringUnchecked ==
    /\ pc = "matrix"
    /\ pc' = "merging"
    /\ clusters' = [k \in 1..Len(matrix) |-> leafCluster(k)]
    /\ dist' = matrix
    /\ UNCHANGED <<matrix, merges, result, run, first, pipelineVars, identityVars, pageVars>>

\* the clusterer is called: InputError without sequences, else one cluster
\* per sequence
StartClustering ==
    /\ pc = "matrix"
    /\ IF Len(matrix) = 0
       THEN /\ pc' = "InputError"
            /\ UNCHANGED <<dist, clusters>>
       ELSE /\ pc' = "merging"
            /\ clusters' = [k \in 1..Len(matrix) |-> leafCluster(k)]
            /\ dist' = matrix
    /\ UNCHANGED <<matrix, merges, result, run, first, pipelineVars, identityVars, pageVars>>

\* the merge of clusters i and j
Merge(i, j) ==
    /\ clusters' = mergedClusters(clusters, dist, i, j)
    /\ dist' = mergedDistances(clusters, dist, i, j)
    /\ merges' = Append(merges, [i |-> i, j |-> j])
    /\ UNCHANGED <<pc, matrix, result, run, first, pipelineVars, identityVars, pageVars>>

\* a merge step that takes any pair of minimal distance
MergeStepAnyMinimal ==
    /\ pc = "merging"
    /\ Len(clusters) > 1
    /\ \E i \in 1..Len(clusters), j \in 1..Len(clusters) :
          /\ i < j
          /\ \A a \in 1..Len(clusters), b \in 1..Len(clusters) :
                 a < b => ~FracLess(dist[a][b], dist[i][j])
          /\ Merge(i, j)

\* one step of the loop: the first minimal pair is merged
MergeStep ==
    /\ pc = "merging"
    /\ Len(clusters) > 1
    /\ LET p == findMinPair(dist, Len(clusters)) IN Merge(p[1], p[2])

\* one cluster remains: its node is the result, the root's branch length 0
FinishClustering ==
    /\ pc = "merging"
    /\ Len(clusters) = 1
    /\ result' = [clusters[1].node EXCEPT !.length = FracZero]
    /\ pc' = "done"
    /\ UNCHANGED <<matrix, dist, clusters, merges, run, first, pipelineVars, identityVars, pageVars>>

\* the clusterer is called once more with the same matrix
RunAgain ==
    /\ pc = "done"
    /\ run = 1
    /\ first' = result
    /\ run' = 2
    /\ pc' = "matrix"
    /\ dist' = <<>>
    /\ clusters' = <<>>
    /\ merges' = <<>>
    /\ result' = NoTree
    /\ UNCHANGED <<matrix, pipelineVars, identityVars, pageVars>>

NextUPGMA == StartClustering \/ MergeStep \/ FinishClustering \/ RunAgain

SpecUPGMA == InitUPGMA /\ [][NextUPGMA]_vars

MaxFairSeqs == 3

\* the clusterer called with up to MaxFairSeqs sequences
InitUPGMAFair ==
    /\ InitUPGMA
    /\ Len(matrix) <= MaxFairSeqs

\* a step of the clusterer can be taken: ENABLED <<NextUPGMA>>_vars
CanStep == pc \in {"matrix", "merging"} \/ (pc = "done" /\ run = 1)

\* the clusterer is a loop that runs on, a step that can be taken is taken:
\* weak fairness of NextUPGMA, WF_vars(NextUPGMA), with ENABLED written out
SpecUPGMAFair ==
    /\ InitUPGMAFair
    /\ [][NextUPGMA]_vars
    /\ ([]<>(~CanStep) \/ []<><<NextUPGMA>>_vars)

-----------------------------------------------------------------------------
(* The identity calculator of the design document, section 4.1.  A score   *)
(* is a percentage, an exact fraction like the distances.                  *)

MaxAlign == 3

\* residues: two cases of one letter, and the gap character
Residues == {"A", "a", "-"}

\* the aligned sequences of length 1..MaxAlign
AlignedResidues == UNION {[1..k -> Residues] : k \in 1..MaxAlign}

\* countIdentical counting no column of two gaps
RECURSIVE countIdenticalNoGaps(_, _, _)
countIdenticalNoGaps(a, b, p) ==
    IF p >= Len(a) THEN 0
    ELSE (IF a[p + 1] = b[p + 1] /\ a[p + 1] # "-" THEN 1 ELSE 0)
         + countIdenticalNoGaps(a, b, p + 1)

\* the number of columns q in [p, L) with residues_a[q] == residues_b[q]
RECURSIVE countIdentical(_, _, _)
countIdentical(a, b, p) ==
    IF p >= Len(a) THEN 0
    ELSE (IF a[p + 1] = b[p + 1] THEN 1 ELSE 0) + countIdentical(a, b, p + 1)

\* the percentage of identical columns over the full alignment length
identity(a, b) == Frac(100 * countIdentical(a, b, 0), Len(a))

InitIdentity ==
    /\ pc = "aligned"
    /\ residuesA \in AlignedResidues
    /\ residuesB \in AlignedResidues
    /\ score = NoScore
    /\ swapped = NoScore
    /\ PipelineIdle
    /\ ClustererIdle
    /\ PageInitial

\* the calculator is called with (a, b): InputError when the lengths differ
CalculateIdentity ==
    /\ pc = "aligned"
    /\ IF Len(residuesA) # Len(residuesB)
       THEN /\ pc' = "InputError"
            /\ UNCHANGED score
       ELSE /\ score' = identity(residuesA, residuesB)
            /\ pc' = "scored"
    /\ UNCHANGED <<residuesA, residuesB, swapped, pipelineVars, clusterVars, pageVars>>

\* the calculator is called with the same pair the other way round
CalculateSwapped ==
    /\ pc = "scored"
    /\ swapped' = identity(residuesB, residuesA)
    /\ pc' = "both"
    /\ UNCHANGED <<residuesA, residuesB, score, pipelineVars, clusterVars, pageVars>>

NextIdentity == CalculateIdentity \/ CalculateSwapped

SpecIdentity == InitIdentity /\ [][NextIdentity]_vars

-----------------------------------------------------------------------------
(* The page (Home): the state of the component and its handlers.  An       *)
(* error message is a sequence of text pieces, '' the empty sequence; a    *)
(* file is [name, size]; a request is [url, accessions, file].  The two    *)
(* trim motifs only travel in the request and are left out.                *)

\* text.split(sep), from position i on, current being the part under way
RECURSIVE split(_, _, _, _)
split(text, sep, i, current) ==
    IF i >= Len(text) THEN <<current>>
    ELSE IF text[i + 1] = sep THEN <<current>> \o split(text, sep, i + 1, <<>>)
    ELSE split(text, sep, i + 1, Append(current, text[i + 1]))

NonEmpty(a) == a # <<>>

\* accessionList keeping the blank lines
accessionListUnfiltered(text) ==
    LET lines == split(text, "\n", 0, <<>>) IN [k \in 1..Len(lines) |-> trim(lines[k])]

\* accessions.split('\n').map(a => a.trim()).filter(a => a)
accessionList(text) ==
    LET lines == split(text, "\n", 0, <<>>) IN
    SelectSeq([k \in 1..Len(lines) |-> trim(lines[k])], NonEmpty)

UpperCase ==
    <<"A", "B", "C", "D", "E", "F", "G", "H", "I", "J", "K", "L", "M",
      "N", "O", "P", "Q", "R", "S", "T", "U", "V", "W", "X", "Y", "Z">>

LowerCase ==
    <<"a", "b", "c", "d", "e", "f", "g", "h", "i", "j", "k", "l", "m",
      "n", "o", "p", "q", "r", "s", "t", "u", "v", "w", "x", "y", "z">>

\* file.name.toLowerCase()
toLowerCase(s) ==
    [i \in 1..Len(s) |->
        IF \E k \in 1..Len(UpperCase) : UpperCase[k] = s[i]
        THEN LowerCase[CHOOSE k \in 1..Len(UpperCase) : UpperCase[k] = s[i]]
        ELSE s[i]]

\* endsWith finding the suffix anywhere in the text
includes(s, suffix) ==
    \E i \in 1..(Len(s) - Len(suffix) + 1) : SubSeq(s, i, i + Len(suffix) - 1) = suffix

\* s.endsWith(suffix)
endsWith(s, suffix) ==
    /\ Len(s) >= Len(suffix)
    /\ SubSeq(s, Len(s) - Len(suffix) + 1, Len(s)) = suffix

\* const validExtensions = ['fasta', 'fa', 'faa']
validExtensions ==
    <<(<<"f", "a", "s", "t", "a">>), (<<"f", "a">>), (<<"f", "a", "a">>)>>

\* validExtensions.some(ext => fileName.endsWith('.' + ext) ||
\*                             fileName.endsWith('.' + ext + '.txt'))
hasValidExtension(fileName) ==
    \E k \in 1..Len(validExtensions) :
        \/ endsWith(fileName, <<".">> \o validExtensions[k])
        \/ endsWith(fileName, <<".">> \o validExtensions[k] \o <<".", "t", "x", "t">>)

\* const maxSize = 10 * 1024 * 1024
maxSize == 10 * 1024 * 1024

TooFewAccessions == <<"Please enter at least 2 UniProt accessions">>

NoFileSelected == <<"Please select a FASTA file">>

invalidFormat(name) ==
    <<"Invalid file format. File name: \"">> \o name
    \o <<"\". Please select a .fasta, .fa, or .faa file">>

FileTooLarge == <<"File too large. Maximum size is 10MB">>

AnalysisFailed == <<"Analysis failed. Please try again.">>

\* the texts typed into the accession box
AccessionTexts ==
    {DefaultAccessions,
     <<>>,
     <<"P", "1">>,
     <<"P", "1", "\n", "P", "2">>,
     <<"P", "1", "\n", " ", "\n">>,
     <<" ", "P", "1", " ", "\n", "\n", "P", "2">>}

\* the names and the sizes of the files offered to the file input
FileNames ==
    {<<"s", ".", "f", "a", "s", "t", "a">>,
     <<"s", ".", "f", "a">>,
     <<"s", ".", "f", "a", "a">>,
     <<"S", ".", "F", "A", "S", "T", "A">>,
     <<"s", ".", "f", "a", ".", "t", "x", "t">>,
     <<"s", ".", "t", "x", "t">>,
     <<"f", "a", "s", "t", "a">>,
     <<"s", ".", "f", "a", "s">>}

FileSizes == {1, maxSize, maxSize + 1}

Files == [name : FileNames, size : FileSizes]

\* response.data of an answer, and err.response?.data?.detail of a failure
\* (NoDetail: the failure carries none)
ResponseData == {<<"data 1">>, <<"data 2">>}

NoDetail == <<>>

Details == {NoDetail, <<"Need at least 2 sequences">>}

otherVars == <<pipelineVars, clusterVars, identityVars>>

InitPage ==
    /\ pc = "page"
    /\ PageInitial
    /\ PipelineIdle
    /\ ClustererIdle
    /\ IdentityIdle

\* onChange of the accession box, shown on the UniProt tab
SetAccessions(text) ==
    /\ inputMode = "uniprot"
    /\ accessions' = text
    /\ UNCHANGED <<pc, loading, results, error, inputMode, selectedFile, requests, otherVars>>

\* onClick of a tab header
SetInputMode(mode) ==
    /\ inputMode' = mode
    /\ error' = NoError
    /\ UNCHANGED <<pc, accessions, loading, results, selectedFile, requests, otherVars>>

\* handleFileChange, called by the file input, which the FASTA tab shows
\* while no file is selected
handleFileChange(file) ==
    /\ inputMode = "fasta"
    /\ selectedFile = NoFile
    /\ IF file = NoFile
       THEN UNCHANGED <<error, selectedFile>>
       ELSE IF ~hasValidExtension(toLowerCase(file.name))
       THEN /\ error' = invalidFormat(file.name)
            /\ selectedFile' = NoFile
       ELSE IF file.size > maxSize
       THEN /\ error' = FileTooLarge
            /\ selectedFile' = NoFile
       ELSE /\ selectedFile' = file
            /\ error' = NoError
    /\ UNCHANGED <<pc, accessions, loading, results, inputMode, requests, otherVars>>

\* clearFile, called by the Remove button of the selected file
clearFile ==
    /\ inputMode = "fasta"
    /\ selectedFile # NoFile
    /\ selectedFile' = NoFile
    /\ UNCHANGED <<pc, accessions, loading, results, error, inputMode, requests, otherVars>>

\* analyzeDisabled without the test for loading
analyzeDisabledWithoutFile == inputMode = "fasta" /\ selectedFile = NoFile

\* analyzeDisabled without the test for a file
analyzeDisabledWhileLoading == loading

\* disabled={loading || (inputMode === 'fasta' && !selectedFile)}
analyzeDisabled == loading \/ (inputMode = "fasta" /\ selectedFile = NoFile)

\* handleAnalyze without setResults(null)
handleAnalyzeKeepResults ==
    /\ results' = results
    /\ IF inputMode = "uniprot"
       THEN IF Len(accessionList(accessions)) < 2
            THEN /\ error' = TooFewAccessions
                 /\ loading' = FALSE
                 /\ UNCHANGED requests
            ELSE /\ error' = NoError
                 /\ loading' = TRUE
                 /\ requests' = Append(requests,
                        [url |-> "/api/analyze",
                         accessions |-> accessionList(accessions),
                         file |-> NoFile])
       ELSE IF selectedFile = NoFile
            THEN /\ error' = NoFileSelected
                 /\ loading' = FALSE
                 /\ UNCHANGED requests
            ELSE /\ error' = NoError
                 /\ loading' = TRUE
                 /\ requests' = Append(requests,
                        [url |-> "/api/analyze-fasta",
                         accessions |-> <<>>,
                         file |-> selectedFile])
    /\ UNCHANGED <<pc, accessions, inputMode, selectedFile, otherVars>>

\* handleAnalyze up to its await
handleAnalyze ==
    /\ results' = NoResults
    /\ IF inputMode = "uniprot"
       THEN IF Len(accessionList(accessions)) < 2
            THEN /\ error' = TooFewAccessions
                 /\ loading' = FALSE
                 /\ UNCHANGED requests
            ELSE /\ error' = NoError
                 /\ loading' = TRUE
                 /\ requests' = Append(requests,
                        [url |-> "/api/analyze",
                         accessions |-> accessionList(accessions),
                         file |-> NoFile])
       ELSE IF selectedFile = NoFile
            THEN /\ error' = NoFileSelected
                 /\ loading' = FALSE
                 /\ UNCHANGED requests
            ELSE /\ error' = NoError
                 /\ loading' = TRUE
                 /\ requests' = Append(requests,
                        [url |-> "/api/analyze-fasta",
                         accessions |-> <<>>,
                         file |-> selectedFile])
    /\ UNCHANGED <<pc, accessions, inputMode, selectedFile, otherVars>>

\* onClick of the Analyze button, which does nothing while it is disabled
ClickAnalyze ==
    /\ ~analyzeDisabled
    /\ handleAnalyze

\* handleAnalyze after its await when the request is answered
Resolve(data) ==
    /\ requests # <<>>
    /\ requests' = Tail(requests)
    /\ results' = data
    /\ loading' = FALSE
    /\ UNCHANGED <<pc, accessions, error, inputMode, selectedFile, otherVars>>

\* Reject without the finally block
RejectWithoutFinally(detail) ==
    /\ requests # <<>>
    /\ requests' = Tail(requests)
    /\ error' = (IF detail # NoDetail THEN detail ELSE AnalysisFailed)
    /\ UNCHANGED <<pc, accessions, loading, results, inputMode, selectedFile, otherVars>>

\* handleAnalyze after its await when the request fails
Reject(detail) ==
    /\ requests # <<>>
    /\ requests' = Tail(requests)
    /\ error' = (IF detail # NoDetail THEN detail ELSE AnalysisFailed)
    /\ loading' = FALSE
    /\ UNCHANGED <<pc, accessions, results, inputMode, selectedFile, otherVars>>

NextPage ==
    \/ \E text \in AccessionTexts : SetAccessions(text)
    \/ \E mode \in {"uniprot", "fasta"} : SetInputMode(mode)
    \/ \E file \in Files \cup {NoFile} : handleFileChange(file)
    \/ clearFile
    \/ ClickAnalyze
    \/ \E data \in ResponseData : Resolve(data)
    \/ \E detail \in Details : Reject(detail)

SpecPage == InitPage /\ [][NextPage]_vars

\* the answer to the request that is out, whichever it is
Answer ==
    \/ \E data \in ResponseData : Resolve(data)
    \/ \E detail \in Details : Reject(detail)

\* the page when every request sent is answered in the end
SpecPageFair == InitPage /\ [][NextPage]_vars /\ WF_vars(Answer)

\* handleAnalyze called on an idle page whatever the state of the button
CallAnalyze ==
    /\ ~loading
    /\ handleAnalyze

NextPageDirect == NextPage \/ CallAnalyze

\* the page with its handler also called directly
SpecPageDirect == InitPage /\ [][NextPageDirect]_vars

-----------------------------------------------------------------------------
(* Vocabulary of the properties *)

Parsed == pc \in {"parsed", "rendered"}

\* the text parseNode is called with
Handed(text) == trim(stripSemicolon(text))

\* parenthesis depth after the first i characters of s
Depth(s, i) ==
    Cardinality({j \in 1..i : s[j] = "("}) - Cardinality({j \in 1..i : s[j] = ")"})

\* the 1-based positions of s where a ')' brings the depth back to 0
Closings(s) == {i \in 1..Len(s) : s[i] = ")" /\ Depth(s, i) = 0}

Least(S) == CHOOSE i \in S : \A j \in S : i <= j

\* the 1-based position of the first ':' of s, 0 when there is none
FirstColon(s) ==
    LET C == {i \in 1..Len(s) : s[i] = ":"} IN IF C = {} THEN 0 ELSE Least(C)

BeforeColon(s) == SubSeq(s, 1, FirstColon(s) - 1)

AfterColon(s) == SubSeq(s, FirstColon(s) + 1, Len(s))

\* the text after the matching ')' of a text that starts with '('
AfterClosing(s) == SubSeq(s, Least(Closings(s)) + 1, Len(s))

\* a name or label as it stands survives trimming
Trimmed(name) == trim(name) = name

RECURSIVE NamesTrimmed(_)
NamesTrimmed(t) ==
    /\ Trimmed(t.name)
    /\ \A k \in 1..Len(t.children) : NamesTrimmed(t.children[k])

\* p is t up to the placeholder label of unnamed internal nodes
RECURSIVE SameTree(_, _)
SameTree(t, p) ==
    /\ p.length = t.length
    /\ Len(p.children) = Len(t.children)
    /\ IF t.kind = "Leaf" THEN p.name = t.name
       ELSE p.name = (IF t.name = NoLabel THEN InternalLabel ELSE t.name)
    /\ \A k \in 1..Len(t.children) : SameTree(t.children[k], p.children[k])

\* the lines of a text, each without its terminating "\n"
RECURSIVE Lines(_)
Lines(text) ==
    IF text = <<>> THEN <<>>
    ELSE LET N == {i \in 1..Len(text) : text[i] = "\n"}
             n == IF N = {} THEN Len(text) + 1 ELSE Least(N)
         IN  <<SubSeq(text, 1, n - 1)>> \o Lines(SubSeq(text, n + 1, Len(text)))

\* the nodes of a tree in depth-first pre-order, each with its depth and
\* whether it is the last of its siblings
RECURSIVE PreOrder(_, _, _)
RECURSIVE PreOrderAll(_, _, _)
PreOrder(t, depth, last) ==
    <<[node |-> t, depth |-> depth, last |-> last]>>
    \o PreOrderAll(t.children, 1, depth + 1)

PreOrderAll(cs, k, depth) ==
    IF k > Len(cs) THEN <<>>
    ELSE PreOrder(cs[k], depth, k = Len(cs)) \o PreOrderAll(cs, k + 1, depth)

LastConnector == <<BoxUpRight, BoxHoriz, BoxHoriz, " ">>

MiddleConnector == <<BoxVertRight, BoxHoriz, BoxHoriz, " ">>

\* the connector of the line of a node at depth d, and what follows it
ConnectorOf(line, d) == SubSeq(line, 4 * d + 1, 4 * d + 4)

AfterConnector(line, d) == SubSeq(line, 4 * d + 5, Len(line))

\* digits '.' four digits, with an optional sign
IsFixed4(num) ==
    LET u == IF startsWith(num, "-") THEN Tail(num) ELSE num
        n1 == DigitRun(u, 1)
    IN  n1 >= 1 /\ Len(u) = n1 + 5 /\ u[n1 + 1] = "." /\ DigitRun(u, n1 + 2) = 4

-----------------------------------------------------------------------------
(* Properties *)

C2_UnclosedFallback ==
    (Parsed /\ startsWith(newick, "(") /\ Closings(newick) = {})
        => tree = [children |-> <<>>, name |-> Null, length |-> Zero]

C2_Witness ==
    /\ pc = "parsed"
    /\ newick = UnclosedExample
    /\ tree.children = <<>>
    /\ tree.length = Zero

\* C3 as claimed: a text that does not start with '(' is parsed to a leaf;
\* with a ':' at whatever position, its name is the text left of the first
\* ':' and its branch length the number right of it (names taken as the
\* reader stores them, without surrounding white space; 0 when no number is
\* written); without ':' the whole text is the name and the length is 0.
C3_LeafSplitsAtFirstColon ==
    (Parsed /\ ~startsWith(Handed(newick), "("))
        => LET s == Handed(newick) IN
           /\ tree.children = <<>>
           /\ IF FirstColon(s) > 0
              THEN /\ tree.name = trim(BeforeColon(s))
                   /\ tree.length = orZero(parseFloat(AfterColon(s)))
              ELSE /\ tree.name = s
                   /\ tree.length = Zero

\* C4 (as amended): the text after the matching ')' of an internal node is
\* [name][':' length]: the name is the part before the first ':' (the whole
\* text when there is none) without its leading and trailing white space,
\* the placeholder label when that is empty; the length is the number after
\* the ':' and 0 when there is no ':'.
C4_InternalLabelTrimmed ==
    (Parsed /\ startsWith(Handed(newick), "(") /\ Closings(Handed(newick)) # {})
        => LET rest == AfterClosing(Handed(newick))
               label == trim(IF FirstColon(rest) > 0 THEN BeforeColon(rest) ELSE rest)
           IN  /\ tree.name = (IF label = <<>> THEN InternalLabel ELSE label)
               /\ tree.length = (IF FirstColon(rest) > 0
                                 THEN orZero(parseFloat(AfterColon(rest)))
                                 ELSE Zero)

\* C4 as claimed: the name is the part before the first ':' (the whole text
\* when there is none) as written, the placeholder label when it is empty.
C4_InternalLabelVerbatim ==
    (Parsed /\ startsWith(Handed(newick), "(") /\ Closings(Handed(newick)) # {})
        => LET rest == AfterClosing(Handed(newick))
               label == IF FirstColon(rest) > 0 THEN BeforeColon(rest) ELSE rest
           IN  /\ tree.name = (IF label = <<>> THEN InternalLabel ELSE label)
               /\ tree.length = (IF FirstColon(rest) > 0
                                 THEN orZero(parseFloat(AfterColon(rest)))
                                 ELSE Zero)

C4_Witness ==
    /\ pc = "parsed"
    /\ source # NoTree
    /\ Len(tree.children) = 2
    /\ tree.name = <<"X">>
    /\ tree.length = [m |-> 3, e |-> 0]
    /\ tree.children[1].name = InternalLabel
    /\ tree.children[1].length = Zero

\* C5: the line of every node carries the connector of a last child when the
\* node is the last of its siblings and the connector of a middle child
\* otherwise, the root counting as last; in the rendering of
\* ((A:0.1,B:0.2):0.0); the top node has the last-child connector, A the
\* middle-child connector and B the last-child connector.
C5_Connectors ==
    pc = "rendered"
        => LET ls == Lines(ascii)
               ns == PreOrder(tree, 0, TRUE)
           IN  /\ Len(ls) = Len(ns)
               /\ ConnectorOf(ls[1], 0) = LastConnector
               /\ \A k \in 1..Len(ns) :
                      ConnectorOf(ls[k], ns[k].depth) =
                          (IF ns[k].last THEN LastConnector ELSE MiddleConnector)
               /\ newick = RenderExample =>
                      /\ ConnectorOf(ls[1], 0) = LastConnector
                      /\ ns[3].node.name = <<"A">>
                      /\ ConnectorOf(ls[3], 2) = MiddleConnector
                      /\ ns[4].node.name = <<"B">>
                      /\ ConnectorOf(ls[4], 2) = LastConnector

C5_Witness ==
    /\ pc = "rendered"
    /\ newick = RenderExample
    /\ Len(Lines(ascii)) = 4
    /\ ConnectorOf(Lines(ascii)[3], 2) = MiddleConnector

\* C6: the line of a node ends in " (" length ")" with the length written
\* with 4 decimals exactly when the node's branch length is not 0; the line
\* of a node of branch length 0 ends with the node's name.
C6_LengthAnnotation ==
    pc = "rendered"
        => LET ls == Lines(ascii)
               ns == PreOrder(tree, 0, TRUE)
           IN  /\ Len(ls) = Len(ns)
               /\ \A k \in 1..Len(ns) :
                      LET shown == IF ns[k].node.name \in {Null, <<>>}
                                   THEN InternalNodeLabel ELSE ns[k].node.name
                          rest == AfterConnector(ls[k], ns[k].depth)
                          note == SubSeq(rest, Len(shown) + 1, Len(rest))
                          num == SubSeq(note, 3, Len(note) - 1)
                      IN  /\ SubSeq(rest, 1, Len(shown)) = shown
                          /\ IF ns[k].node.length = Zero THEN note = <<>>
                             ELSE /\ Len(note) >= 3
                                  /\ SubSeq(note, 1, 2) = <<" ", "(">>
                                  /\ note[Len(note)] = ")"
                                  /\ IsFixed4(num)
                                  /\ ns[k].node.length.e <= 4
                                         => parseFloat(num) = ns[k].node.length

C6_Witness ==
    /\ pc = "rendered"
    /\ Len(tree.children) = 2
    /\ tree.children[1].length = [m |-> 25, e |-> 2]
    /\ tree.children[2].length = Zero
    /\ Lines(ascii)[2] =
           <<" ", " ", " ", " ">> \o MiddleConnector
           \o <<"A", " ", "(", "0", ".", "2", "5", "0", "0", ")">>
    /\ Lines(ascii)[3] = <<" ", " ", " ", " ">> \o LastConnector \o <<"B">>

-----------------------------------------------------------------------------
(* Properties of the clusterer *)

\* the nodes of the clusterer's result, in pre-order
ResultNodes == LET ns == PreOrder(result, 0, TRUE) IN [k \in 1..Len(ns) |-> ns[k].node]

\* the names of the leaves of a tree
RECURSIVE LeafSet(_)
LeafSet(t) ==
    IF t.kind = "Leaf" THEN {t.name}
    ELSE UNION {LeafSet(t.children[k]) : k \in 1..Len(t.children)}

\* the branch-length sums from a node down to each leaf below it
RECURSIVE LeafDepths(_)
LeafDepths(t) ==
    IF t.kind = "Leaf" THEN {FracZero}
    ELSE UNION {{FracAdd(t.children[k].length, x) : x \in LeafDepths(t.children[k])} :
                k \in 1..Len(t.children)}

\* the pairs (a, b), a < b, of n clusters
PairsOf(n) == {p \in (1..n) \X (1..n) : p[1] < p[2]}

\* pair p comes before pair q in the row-major scan
ScannedBefore(p, q) == p[1] < q[1] \/ (p[1] = q[1] /\ p[2] < q[2])

\* the pairs other than p that are as close as p under the distances d
TiedPairs(d, p) ==
    {q \in PairsOf(Len(d)) : q # p /\ d[q[1]][q[2]] = d[p[1]][p[2]]}

\* the names of the sequences of a set of members
IdsOf(members) == {<<SeqIds[x]>> : x \in members}

\* C7: for N >= 2 sequences the tree returned has exactly N leaves, one per
\* sequence identifier, and N - 1 internal nodes of exactly two children
\* each, and no branch length is negative.
C7_TreeShape ==
    (pc = "done" /\ Len(matrix) >= 2)
        => LET ns == ResultNodes
               L == {k \in 1..Len(ns) : ns[k].kind = "Leaf"}
               I == {k \in 1..Len(ns) : ns[k].kind = "Internal"}
           IN  /\ Cardinality(L) = Len(matrix)
               /\ {ns[k].name : k \in L} = {<<SeqIds[i]>> : i \in 1..Len(matrix)}
               /\ Cardinality(I) = Len(matrix) - 1
               /\ \A k \in I : Len(ns[k].children) = 2
               /\ \A k \in 1..Len(ns) : ns[k].length.n >= 0

C7_Witness ==
    /\ pc = "done"
    /\ Len(matrix) = 4
    /\ Len(result.children) = 2
    /\ result.children[1].kind = "Leaf"
    /\ result.children[2].kind = "Internal"
    /\ result.children[2].height # FracZero
    /\ result.children[1].length # result.children[2].length

\* C8: the pair merged at a step is the first pair (i, j), i < j, of minimal
\* distance in the row-major scan of the current clusters, and the children
\* of the new node are the trees of clusters i and j in this order; for
\* A = "ACGT", B = "ACGA", C = "TCGA" the first merge is (A, B).
C8_FirstMinimalPair ==
    [][(merges' # merges /\ merges' # <<>>)
          => LET e == merges'[Len(merges')]
                 m == clusters'[Len(clusters')].node
             IN  /\ e.i < e.j
                 /\ \A p \in PairsOf(Len(dist)) :
                        /\ ~FracLess(dist[p[1]][p[2]], dist[e.i][e.j])
                        /\ ScannedBefore(p, <<e.i, e.j>>)
                               => FracLess(dist[e.i][e.j], dist[p[1]][p[2]])
                 /\ Len(m.children) = 2
                 /\ LeafSet(m.children[1]) = IdsOf(clusters[e.i].members)
                 /\ LeafSet(m.children[2]) = IdsOf(clusters[e.j].members)
                 /\ (matrix = TieExample /\ merges = <<>>)
                        => /\ LeafSet(m.children[1]) = {<<"A">>}
                           /\ LeafSet(m.children[2]) = {<<"B">>}]_vars

C8_Witness ==
    /\ pc = "merging"
    /\ matrix = TieExample
    /\ merges = <<[i |-> 1, j |-> 2]>>
    /\ TiedPairs(matrix, <<1, 2>>) = {<<2, 3>>}
    /\ LeafSet(clusters[Len(clusters)].node) = {<<"A">>, <<"B">>}
    /\ clusters[Len(clusters)].node.children[1].name = <<"A">>

\* C9: in the tree returned, the branch lengths from an internal node down
\* to a leaf add up to the same sum for every leaf below the node, and the
\* sum is the node's height.
C9_Ultrametric ==
    pc = "done"
        => \A k \in 1..Len(ResultNodes) :
               ResultNodes[k].kind = "Internal"
                   => LeafDepths(ResultNodes[k]) = {ResultNodes[k].height}

C9_Witness ==
    /\ pc = "done"
    /\ Len(matrix) = 4
    /\ result.height = Frac(5, 24)
    /\ LeafDepths(result) = {Frac(5, 24)}

C12_DegenerateSizes ==
    /\ (Len(matrix) = 0 /\ pc # "matrix")
           => (pc = "InputError" /\ result = NoTree)
    /\ pc = "InputError" => Len(matrix) = 0
    /\ (pc = "done" /\ Len(matrix) = 1)
           => /\ result.kind = "Leaf"
              /\ result.name = <<SeqIds[1]>>
              /\ result.length = FracZero
              /\ result.children = <<>>
    /\ (pc = "done" /\ Len(matrix) = 2)
           => /\ result.kind = "Internal"
              /\ result.length = FracZero
              /\ Len(result.children) = 2
              /\ \A k \in 1..2 :
                     /\ result.children[k].kind = "Leaf"
                     /\ result.children[k].name = <<SeqIds[k]>>
                     /\ result.children[k].children = <<>>
                     /\ result.children[k].length = FracOver(matrix[1][2], 2)

\* two sequences at distance 1/2 came back as two leaves 1/4 below the root
C12_Witness ==
    /\ pc = "done"
    /\ Len(matrix) = 2
    /\ matrix[1][2] = Frac(1, 2)
    /\ merges = <<[i |-> 1, j |-> 2]>>
    /\ result.children[1].length = Frac(1, 4)
    /\ result.children[2].length = Frac(1, 4)

-----------------------------------------------------------------------------
(* Properties of the reader's scans *)

\* the text between the '(' a text starts with and its matching ')'
Between(s) == SubSeq(s, 2, Least(Closings(s)) - 1)

\* node is what the text str0 reads as when every '(' is closed by the first
\* ')' that brings the depth back to 0: the children are the readings of the
\* subtrees between the two, name and length come from what follows
RECURSIVE ClosedAtMatch(_, _)
ClosedAtMatch(str0, node) ==
    LET s == trim(str0) IN
    IF ~startsWith(s, "(") THEN node = parseNode(s)
    ELSE IF Closings(s) = {} THEN node = emptyNode
    ELSE LET written == splitChildren(Between(s), 0, 0, <<>>, <<>>) IN
         /\ node.name = internalName(AfterClosing(s))
         /\ node.length = internalLength(AfterClosing(s))
         /\ Len(node.children) = Len(written)
         /\ \A k \in 1..Len(written) : ClosedAtMatch(written[k], node.children[k])

\* the number of '(' of a text
Openings(s) == Cardinality({i \in 1..Len(s) : s[i] = "("})

\* C15: for a text starting with '(' the closing parenthesis of the node is
\* the first ')' at which the depth, counted up on '(' and down on ')', is
\* back at 0; at every level of nesting the children of an internal node
\* are the subtrees written between its '(' and this ')'.
C15_MatchingParen ==
    (Parsed /\ startsWith(Handed(newick), "(") /\ Closings(Handed(newick)) # {})
        => ClosedAtMatch(Handed(newick), tree)

\* a nested text: the first ')' is not the matching one of the root
C15_Witness ==
    /\ pc = "parsed"
    /\ source # NoTree
    /\ Openings(newick) >= 2
    /\ Closings(Handed(newick)) # {}
    /\ \E i \in 1..Len(newick) :
           newick[i] = ")" /\ i < Least(Closings(Handed(newick)))
    /\ Len(tree.children) = 2
    /\ Len(tree.children[1].children) = 1
    /\ ClosedAtMatch(Handed(newick), tree)

\* the 1-based positions of the commas of s that stand at depth 0
TopCommas(s) == {i \in 1..Len(s) : s[i] = "," /\ Depth(s, i) = 0}

\* the pieces of a text between the positions cuts, from left to right
RECURSIVE Pieces(_, _)
Pieces(text, cuts) ==
    IF cuts = {} THEN <<text>>
    ELSE LET n == Least(cuts) IN
         <<SubSeq(text, 1, n - 1)>>
         \o Pieces(SubSeq(text, n + 1, Len(text)), {c - n : c \in cuts \ {n}})

NonBlank(text) == trim(text) # <<>>

\* node is what the text str0 reads as when the text between matching
\* parentheses is cut at its commas of depth 0 and nowhere else, the
\* non-blank pieces becoming the children from left to right
RECURSIVE SplitAtTopCommas(_, _)
SplitAtTopCommas(str0, node) ==
    LET s == trim(str0)
        endParen == findEndParen(s, 0, 0)
    IN  IF ~startsWith(s, "(") \/ endParen = -1 THEN node = parseNode(s)
        ELSE LET inner == substring(s, 1, endParen)
                 written == SelectSeq(Pieces(inner, TopCommas(inner)), NonBlank)
             IN  /\ Len(node.children) = Len(written)
                 /\ \A k \in 1..Len(written) :
                        SplitAtTopCommas(written[k], node.children[k])

\* C16: the text between the matching parentheses of an internal node is
\* split into children only at the ',' of parenthesis depth 0; a ',' inside
\* a nested child never splits, and the children stand in the parsed node
\* in the left-to-right order of the text.
C16_SplitAtDepthZero ==
    Parsed => SplitAtTopCommas(Handed(newick), tree)

\* the ',' between the parentheses of the root is inside its only child,
\* whose own two children are split at it
C16_Witness ==
    /\ pc = "parsed"
    /\ startsWith(Handed(newick), "(")
    /\ Closings(Handed(newick)) # {}
    /\ \E i \in 1..Len(Between(Handed(newick))) : Between(Handed(newick))[i] = ","
    /\ TopCommas(Between(Handed(newick))) = {}
    /\ Len(tree.children) = 1
    /\ Len(tree.children[1].children) = 2
    /\ tree.children[1].children[1].name = <<"A">>
    /\ tree.children[1].children[2].name = <<"B">>

\* the text ends in ';'
EndsInSemicolon(s) == s # <<>> /\ s[Len(s)] = ";"

\* the text without its last character
Front(s) == SubSeq(s, 1, Len(s) - 1)

\* C17: exactly one trailing ';' is removed before parsing: for a text s
\* that does not end in ';', parseNewick(s + ';') is parseNewick(s); of
\* several ';' at the end only the last is removed, the others are parsed
\* as part of the text.
C17_OneSemicolonRemoved ==
    (Parsed /\ EndsInSemicolon(newick))
        => /\ ~EndsInSemicolon(Front(newick)) => tree = parseNewick(Front(newick))
           /\ EndsInSemicolon(Front(newick)) => tree = parseNode(trim(Front(newick)))

\* a text of two ';' after a name: the first ';' stays in the leaf's name
C17_Witness ==
    /\ pc = "parsed"
    /\ newick = <<"A", ";", ";">>
    /\ tree.name = <<"A", ";">>
    /\ tree # parseNewick(<<"A">>)

-----------------------------------------------------------------------------
(* Properties of the branch lengths read *)

\* no branch-length text is written
Absent == <<"absent">>

\* the branch-length text of the node a text is read as: what follows the
\* first ':' of a leaf, or the first ':' after the matching ')'
LengthText(s) ==
    LET label == IF ~startsWith(s, "(") THEN s
                 ELSE IF Closings(s) = {} THEN <<>>
                 ELSE AfterClosing(s)
    IN  IF FirstColon(label) = 0 THEN Absent ELSE AfterColon(label)

\* a text without the sign it may start with
Unsigned(t) == IF t # <<>> /\ t[1] \in {"+", "-"} THEN Tail(t) ELSE t

\* a decimal number, white space around it allowed: an optional sign, then
\* digits with at most one '.' among them
WellFormedDecimal(t) ==
    LET u == Unsigned(trim(t)) IN
    /\ \A i \in 1..Len(u) : u[i] \in Digits \cup {"."}
    /\ Cardinality({i \in 1..Len(u) : u[i] = "."}) <= 1
    /\ \E i \in 1..Len(u) : u[i] \in Digits

\* the text begins, after white space, with a decimal number
StartsWithNumber(t) ==
    LET u == Unsigned(trimStart(t)) IN
    \/ u # <<>> /\ u[1] \in Digits
    \/ Len(u) >= 2 /\ u[1] = "." /\ u[2] \in Digits

TreeNodes == LET ns == PreOrder(tree, 0, TRUE) IN [k \in 1..Len(ns) |-> ns[k].node]

\* C19 as claimed: every node of the tree parseNewick returns, whatever the
\* text, has a branch length of at least 0.
C19_LengthsNonNegative ==
    Parsed => \A k \in 1..Len(TreeNodes) : TreeNodes[k].length.m >= 0

-----------------------------------------------------------------------------
(* Properties of the traversal of the renderer *)

\* the number of line ends of a text
LineEnds(text) == Cardinality({i \in 1..Len(text) : text[i] = "\n"})

\* C20: the rendering holds one line, ended by a line end, per node of the
\* tree, and the lines stand in depth-first pre-order: the line of a node
\* before the lines of its descendants, the subtrees of its children after
\* one another in the stored order of the children.
C20_OneLinePerNodePreOrder ==
    pc = "rendered"
        => LET ns == PreOrder(tree, 0, TRUE)
               ls == Lines(ascii)
           IN  /\ ascii[Len(ascii)] = "\n"
               /\ LineEnds(ascii) = Len(ns)
               /\ Len(ls) = Len(ns)
               /\ \A k \in 1..Len(ns) :
                      LET rest == AfterConnector(ls[k], ns[k].depth) IN
                      /\ Len(ls[k]) >= 4 * ns[k].depth + 4
                      /\ rest = displayName(ns[k].node) \o lengthText(ns[k].node)

\* a root with a nested first child: the lines are root, child, grandchild,
\* second child
C20_Witness ==
    /\ pc = "rendered"
    /\ source # NoTree
    /\ Len(tree.children) = 2
    /\ Len(tree.children[1].children) = 1
    /\ tree.children[1].children[1].name = <<"A">>
    /\ tree.children[2].name = <<"B">>
    /\ LineEnds(ascii) = 4
    /\ AfterConnector(Lines(ascii)[3], 2) = <<"A">> \o lengthText(tree.children[1].children[1])
    /\ AfterConnector(Lines(ascii)[4], 1) = <<"B">> \o lengthText(tree.children[2])

-----------------------------------------------------------------------------
(* Properties of the identity calculator *)

\* the columns of two sequences of one length that hold the same character
SameColumns(a, b) == {p \in 1..Len(a) : a[p] = b[p]}

\* C11: for two aligned sequences of one length L >= 1 the score is 100
\* times the number of columns of equal characters, two gaps counting as
\* equal, divided by L; it lies in [0, 100] and is the same for (b, a);
\* sequences of different lengths give InputError and no score.
C11_IdentityScore ==
    /\ (pc # "aligned" /\ Len(residuesA) # Len(residuesB))
           => (pc = "InputError" /\ score = NoScore)
    /\ pc = "InputError" => Len(residuesA) # Len(residuesB)
    /\ pc \in {"scored", "both"}
           => /\ score.d > 0
              /\ score.n * Len(residuesA)
                     = 100 * Cardinality(SameColumns(residuesA, residuesB)) * score.d
              /\ 0 <= score.n
              /\ score.n <= 100 * score.d
    /\ pc = "both" => swapped = score

\* two of three columns are equal, one of them a column of two gaps
C11_Witness ==
    /\ pc = "both"
    /\ residuesA = <<"A", "-", "a">>
    /\ residuesB = <<"A", "-", "A">>
    /\ score = Frac(200, 3)
    /\ swapped = score

-----------------------------------------------------------------------------
(* Properties of the page *)

\* the number of lines of a text that hold a character other than white
\* space: a line starts at the start of the text or after a line end
NonBlankLines(text) ==
    Cardinality({a \in 0..Len(text) :
        /\ a = 0 \/ text[a] = "\n"
        /\ \E i \in (a + 1)..Len(text) :
              /\ ~IsWhiteSpace(text[i])
              /\ \A j \in (a + 1)..i : text[j] # "\n"})

\* C13: on the UniProt tab, with fewer than 2 non-blank lines in the
\* accession box, handleAnalyze posts no request, sets the error 'Please
\* enter at least 2 UniProt accessions', leaves results null and ends with
\* loading false.
C13_TooFewAccessions ==
    [][(handleAnalyze /\ inputMode = "uniprot" /\ NonBlankLines(accessions) < 2)
          => /\ requests' = requests
             /\ error' = <<"Please enter at least 2 UniProt accessions">>
             /\ results' = NoResults
             /\ loading' = FALSE]_vars

\* one accession and a blank line were analysed: the error is up, nothing is posted
C13_Witness ==
    /\ pc = "page"
    /\ inputMode = "uniprot"
    /\ accessions = <<"P", "1", "\n", " ", "\n">>
    /\ NonBlankLines(accessions) = 1
    /\ error = TooFewAccessions
    /\ results = NoResults
    /\ loading = FALSE
    /\ requests = <<>>

\* the name ends, whatever the case of its letters, in .fasta, .fa or .faa
EndsInFastaExtension(name) ==
    \E ext \in {<<".", "f", "a", "s", "t", "a">>, <<".", "f", "a">>,
                <<".", "f", "a", "a">>} :
        /\ Len(name) >= Len(ext)
        /\ toLowerCase(SubSeq(name, Len(name) - Len(ext) + 1, Len(name))) = ext

\* the same, or such a name followed by .txt
EndsInFastaOrTxt(name) ==
    \/ EndsInFastaExtension(name)
    \/ /\ Len(name) >= 4
       /\ toLowerCase(SubSeq(name, Len(name) - 3, Len(name))) = <<".", "t", "x", "t">>
       /\ EndsInFastaExtension(SubSeq(name, 1, Len(name) - 4))

TenMegabytes == 10485760

-----------------------------------------------------------------------------
(* Properties of the prefixes of the renderer *)

\* the nodes of a tree in depth-first pre-order, each with the last-sibling
\* flags of its ancestors from the root down and its own flag
RECURSIVE PreOrderPaths(_, _, _)
RECURSIVE PreOrderPathsAll(_, _, _)
PreOrderPaths(t, path, last) ==
    <<[node |-> t, path |-> path, last |-> last]>>
    \o PreOrderPathsAll(t.children, 1, Append(path, last))

PreOrderPathsAll(cs, k, path) ==
    IF k > Len(cs) THEN <<>>
    ELSE PreOrderPaths(cs[k], path, k = Len(cs)) \o PreOrderPathsAll(cs, k + 1, path)

\* the i-th four-character segment of a line
Segment(line, i) == SubSeq(line, 4 * i - 3, 4 * i)

Blanks == <<" ", " ", " ", " ">>

Bar == <<BoxVert, " ", " ", " ">>

\* C21: the line of a node at depth d starts with d segments of four
\* characters, one per ancestor from the root down: four spaces for an
\* ancestor that was the last sibling, a bar and three spaces for any other;
\* the node's own connector follows.
C21_PrefixSegments ==
    pc = "rendered"
        => LET ns == PreOrderPaths(tree, <<>>, TRUE)
               ls == Lines(ascii)
           IN  /\ Len(ls) = Len(ns)
               /\ \A k \in 1..Len(ns) :
                      LET d == Len(ns[k].path) IN
                      /\ Len(ls[k]) >= 4 * d + 4
                      /\ \A i \in 1..d :
                             Segment(ls[k], i) = (IF ns[k].path[i] THEN Blanks ELSE Bar)
                      /\ Segment(ls[k], d + 1) \in {LastConnector, MiddleConnector}

\* a leaf below a child that is not the last: blanks for the root, a bar
\* for the child, then the leaf's connector
C21_Witness ==
    /\ pc = "rendered"
    /\ Len(tree.children) = 2
    /\ Len(tree.children[1].children) = 1
    /\ Segment(Lines(ascii)[3], 1) = Blanks
    /\ Segment(Lines(ascii)[3], 2) = Bar
    /\ Segment(Lines(ascii)[3], 3) = LastConnector

-----------------------------------------------------------------------------
(* Termination of the clusterer *)

\* the member sets of the active clusters
MemberSets == {clusters[k].members : k \in 1..Len(clusters)}

\* the member sets of the active clusters partition the sequences 1..N
MembersPartition ==
    /\ UNION MemberSets = 1..Len(matrix)
    /\ \A k \in 1..Len(clusters) : clusters[k].members # {}
    /\ \A a \in 1..Len(clusters), b \in 1..Len(clusters) :
           a # b => clusters[a].members \cap clusters[b].members = {}

\* C22: the clusterer terminates for every N >= 1.  A merge step takes two
\* active clusters away and adds one with as many members as the two
\* together, so the number of active clusters goes down by exactly 1; the
\* member sets of the active clusters always partition the N sequences;
\* after N - 1 merges exactly one cluster remains and the run ends.
C22_ClustererTerminates ==
    /\ [](pc \in {"merging", "done"}
              => /\ MembersPartition
                 /\ Len(clusters) = Len(matrix) - Len(merges)
                 /\ pc = "done" => (Len(clusters) = 1 /\ Len(merges) = Len(matrix) - 1))
    /\ [][(merges' # merges /\ merges' # <<>>)
              => LET e == merges'[Len(merges')] IN
                 /\ Len(clusters') = Len(clusters) - 1
                 /\ Cardinality(clusters'[Len(clusters')].members)
                        = Cardinality(clusters[e.i].members)
                          + Cardinality(clusters[e.j].members)
                 /\ \A k \in 1..Len(clusters) :
                        k \notin {e.i, e.j}
                            => \E a \in 1..Len(clusters') : clusters'[a] = clusters[k]]_vars
    /\ (pc = "matrix" /\ Len(matrix) >= 1) ~> (pc = "done" /\ Len(clusters) = 1)

\* three sequences: after the first merge two clusters are active, of two
\* members and of one
C22_Witness ==
    /\ pc = "merging"
    /\ Len(matrix) = 3
    /\ Len(merges) = 1
    /\ Len(clusters) = 2
    /\ Cardinality(clusters[2].members) = 2
    /\ Cardinality(clusters[1].members) = 1
    /\ MembersPartition

-----------------------------------------------------------------------------
(* Properties of the requests of the page *)

\* C23: no request goes to /api/analyze-fasta while no file is selected:
\* on the FASTA tab without a file the Analyze button is disabled, and
\* handleAnalyze itself, called all the same, sets the error 'Please select
\* a FASTA file', posts nothing and ends with loading false.
C23_NoFastaRequestWithoutFile ==
    /\ [](/\ \A k \in 1..Len(requests) :
                 requests[k].url = "/api/analyze-fasta" => requests[k].file # NoFile
          /\ (inputMode = "fasta" /\ selectedFile = NoFile) => analyzeDisabled)
    /\ [][/\ (/\ Len(requests') > Len(requests)
              /\ requests'[Len(requests')].url = "/api/analyze-fasta")
                 => (/\ selectedFile # NoFile
                     /\ requests'[Len(requests')].file = selectedFile)
          /\ (handleAnalyze /\ inputMode = "fasta" /\ selectedFile = NoFile)
                 => (/\ error' = <<"Please select a FASTA file">>
                     /\ requests' = requests
                     /\ loading' = FALSE)]_vars

\* the handler was called on the FASTA tab without a file, after an answer
\* had set results: the error is up and nothing is posted
C23_Witness ==
    /\ pc = "page"
    /\ inputMode = "fasta"
    /\ selectedFile = NoFile
    /\ error = NoFileSelected
    /\ results = NoResults
    /\ loading = FALSE
    /\ requests = <<>>

-----------------------------------------------------------------------------
(* Termination of the reader *)

\* every call of parseNode that the reading of str0 makes, at any depth,
\* is made on a text strictly shorter than the text of the calling node
RECURSIVE CallsShrink(_)
CallsShrink(str0) ==
    LET str == trim(str0)
        endParen == findEndParen(str, 0, 0)
    IN  IF ~startsWith(str, "(") \/ endParen = -1 THEN TRUE
        ELSE LET children == splitChildren(substring(str, 1, endParen), 0, 0, <<>>, <<>>)
             IN  \A k \in 1..Len(children) :
                     /\ Len(children[k]) < Len(str)
                     /\ CallsShrink(children[k])

\* the number of nodes of a tree
RECURSIVE NodeCount(_)
RECURSIVE NodeCountAll(_, _)
NodeCount(t) == 1 + NodeCountAll(t.children, 1)

NodeCountAll(cs, k) ==
    IF k > Len(cs) THEN 0 ELSE NodeCount(cs[k]) + NodeCountAll(cs, k + 1)

\* C24: parseNewick ends on every text: each recursive call of parseNode is
\* made on a child text strictly shorter than the text of the calling node
\* (so the tree returned has no more nodes than the text has characters,
\* the single node of the empty text apart).
C24_ParserTerminates ==
    Parsed
        => /\ CallsShrink(Handed(newick))
           /\ NodeCount(tree) <= Len(Handed(newick)) + 1

\* a text of three levels of calls has been read
C24_Witness ==
    /\ pc = "parsed"
    /\ Len(tree.children) >= 1
    /\ Len(tree.children[1].children) >= 1
    /\ NodeCount(tree) >= 3
    /\ CallsShrink(Handed(newick))

-----------------------------------------------------------------------------
(* The node of an unclosed parenthesis *)

\* every '(' of s is closed in s and every ')' of s closes one
Balanced(s) ==
    /\ Depth(s, Len(s)) = 0
    /\ \A i \in 1..Len(s) : Depth(s, i) >= 0

\* every text that the reading of str0 hands to a recursive call of
\* parseNode, at any depth, is balanced
RECURSIVE ChildTextsBalanced(_)
ChildTextsBalanced(str0) ==
    LET str == trim(str0)
        endParen == findEndParen(str, 0, 0)
    IN  IF ~startsWith(str, "(") \/ endParen = -1 THEN TRUE
        ELSE LET children == splitChildren(substring(str, 1, endParen), 0, 0, <<>>, <<>>)
             IN  \A k \in 1..Len(children) :
                     /\ Balanced(children[k])
                     /\ ChildTextsBalanced(children[k])

\* the nodes of the tree below its root, in pre-order
BelowRoot == SubSeq(TreeNodes, 2, Len(TreeNodes))

\* C25: the node of an unclosed parenthesis is returned for the whole text
\* only: every child text handed to a recursive call is balanced; when the
\* first '(' of the text is closed no node below the root is the empty node
\* (none has the name null), and when it is not closed the tree is the
\* empty node alone, with none of the leaves written in the text.
C25_FallbackOnlyAtTop ==
    Parsed =>
        LET str == Handed(newick) IN
        /\ ChildTextsBalanced(str)
        /\ \A k \in 1..Len(BelowRoot) :
               BelowRoot[k] # emptyNode /\ BelowRoot[k].name # Null
        /\ (startsWith(str, "(") /\ Closings(str) = {})
               => (tree = emptyNode /\ Len(TreeNodes) = 1)
        /\ (startsWith(str, "(") /\ Closings(str) # {}) => tree.name # Null

\* a text with a nested parenthesis has been read: a child that starts with
\* '(' was handed on and came back with children of its own
C25_Witness ==
    /\ pc = "parsed"
    /\ startsWith(Handed(newick), "(")
    /\ Closings(Handed(newick)) # {}
    /\ Len(tree.children) = 1
    /\ Len(tree.children[1].children) = 2
    /\ ChildTextsBalanced(Handed(newick))

-----------------------------------------------------------------------------
(* Names of the nodes read *)

\* what is written for the name after the ')' that closes the first '('
NameWritten(s) ==
    LET after == AfterClosing(s) IN
    IF FirstColon(after) > 0 THEN BeforeColon(after) ELSE after

\* the names of the nodes below the root are neither null nor empty; a root
\* of name null is the node of an unclosed parenthesis
NamesBelowRoot ==
    /\ \A k \in 1..Len(BelowRoot) :
           BelowRoot[k].name # Null /\ BelowRoot[k].name # <<>>
    /\ tree.name = Null
           => (startsWith(Handed(newick), "(") /\ Closings(Handed(newick)) = {})

\* below the first line every line shows the name of its node, never the
\* placeholder of renderTreeAscii; an internal node written without a name
\* has the name 'Internal' and is shown with it
PlaceholderOnRootOnly ==
    /\ (startsWith(Handed(newick), "(") /\ Closings(Handed(newick)) # {}
            /\ trim(NameWritten(Handed(newick))) = <<>>)
           => tree.name = InternalLabel
    /\ pc = "rendered"
           => LET ls == Lines(ascii)
                  ns == PreOrder(tree, 0, TRUE)
              IN  /\ Len(ls) = Len(ns)
                  /\ \A k \in 2..Len(ns) :
                         AfterConnector(ls[k], ns[k].depth)
                             = ns[k].node.name \o lengthText(ns[k].node)
                  /\ tree.name = InternalLabel
                         => AfterConnector(ls[1], 0)
                                = InternalLabel \o lengthText(tree)

\* C26 as claimed: every node of the tree parseNewick returns has a
\* non-empty name, but for the root of an unclosed parenthesis (name null)
\* and the leaf returned for a blank text (name empty); so the placeholder
\* 'Internal Node' is shown on the first line only and internal nodes
\* written without a name are shown as 'Internal'.
C26_NamesNonEmpty ==
    Parsed =>
        /\ NamesBelowRoot
        /\ tree.name = <<>> => trim(newick) = <<>>
        /\ PlaceholderOnRootOnly

\* C26: every node of the tree parseNewick returns has a non-empty name,
\* but for the root of an unclosed parenthesis (name null) and the leaf
\* returned for a text that is blank once its final ';' is taken off (name
\* empty); so the placeholder 'Internal Node' is shown on the first line
\* only and internal nodes written without a name are shown as 'Internal'.
C26_NamesNonEmptyButBlankRoot ==
    Parsed =>
        /\ NamesBelowRoot
        /\ tree.name = <<>> => (Handed(newick) = <<>> /\ tree.children = <<>>)
        /\ PlaceholderOnRootOnly

\* a node written without a name below the root has been read and shown
C26_Witness ==
    /\ pc = "rendered"
    /\ Len(tree.children) = 1
    /\ tree.children[1].name = InternalLabel
    /\ Len(Lines(ascii)) >= 2
    /\ AfterConnector(Lines(ascii)[2], 1) = InternalLabel

-----------------------------------------------------------------------------
(* Blank segments of a children text *)

\* the number of segments of inner, cut at its commas of depth 0, that hold
\* a character other than white space
NonBlankSegments(inner) ==
    LET cuts == TopCommas(inner) \cup {0}
        segmentEnd(a) ==
            LET later == {c \in TopCommas(inner) : c > a}
            IN  IF later = {} THEN Len(inner) + 1 ELSE Least(later)
    IN  Cardinality({a \in cuts :
            \E i \in (a + 1)..(segmentEnd(a) - 1) : ~IsWhiteSpace(inner[i])})

\* node and the internal nodes below it have one child for each non-blank
\* segment of their children text
RECURSIVE OneChildPerSegment(_, _)
OneChildPerSegment(str0, node) ==
    LET s == trim(str0) IN
    IF ~startsWith(s, "(") \/ Closings(s) = {} THEN node.children = <<>>
    ELSE LET written == splitChildren(Between(s), 0, 0, <<>>, <<>>) IN
         /\ Len(node.children) = NonBlankSegments(Between(s))
         /\ Len(written) = Len(node.children)
         /\ \A k \in 1..Len(written) :
                OneChildPerSegment(written[k], node.children[k])

\* C27: a blank segment gives no child: an internal node read from a text
\* has as many children as its children text, cut at the commas of depth
\* 0, has segments that are not empty after trimming; "()" is read as an
\* internal node without children and "(A,,B)" as one with the 2 children
\* A and B.
C27_BlankSegmentsDropped ==
    Parsed =>
        /\ OneChildPerSegment(Handed(newick), tree)
        /\ newick = <<"(", ")">>
               => (tree.children = <<>> /\ tree.name = InternalLabel)
        /\ newick = BlankSegmentExample
               => /\ Len(tree.children) = 2
                  /\ tree.children[1].name = <<"A">>
                  /\ tree.children[2].name = <<"B">>

\* the text with a blank segment between two leaves has been read
C27_Witness ==
    /\ pc = "parsed"
    /\ newick = BlankSegmentExample
    /\ NonBlankSegments(Between(Handed(newick))) = 2
    /\ Len(tree.children) = 2

-----------------------------------------------------------------------------
(* The end of an analysis *)

\* the error messages of a request that failed
FailureMessages == (Details \ {NoDetail}) \cup {AnalysisFailed}

\* C28: every call of handleAnalyze leaves loading false in the end: at
\* once when the input is refused, and, the request being answered in the
\* end, after the answer, which either sets results to the data received
\* or sets error to the detail sent by the server or to 'Analysis failed.
\* Please try again.' and leaves results null.
C28_LoadingEnds ==
    /\ [][(ClickAnalyze /\ requests' = requests)
             => (~loading' /\ error' \in {TooFewAccessions, NoFileSelected}
                 /\ results' = NoResults)]_vars
    /\ [][(ClickAnalyze /\ requests' # requests) => (loading' /\ results' = NoResults)]_vars
    /\ [][(requests # <<>> /\ requests' = Tail(requests))
             => /\ ~loading'
                /\ \/ results' \in ResponseData /\ error' = error
                   \/ error' \in FailureMessages /\ results' = NoResults]_vars
    /\ (loading ~> ~loading)

\* a request has failed without a detail: the general message is shown,
\* there are no results and the page is idle again
C28_Witness ==
    /\ pc = "page"
    /\ ~loading
    /\ requests = <<>>
    /\ error = AnalysisFailed
    /\ results = NoResults

-----------------------------------------------------------------------------
(* One request at a time *)

\* C29: at most one request is out at any time: loading is true exactly
\* while a request is out and the Analyze button is disabled while loading
\* is true; a request is sent only by an idle page, which sets loading with
\* it; loading goes back to false only with the answer to the request that
\* is out; switching the tab, selecting a file and removing it change
\* neither loading nor the request.
C29_OneRequestAtATime ==
    /\ [](/\ Len(requests) <= 1
          /\ loading <=> requests # <<>>
          /\ loading => analyzeDisabled)
    /\ [][/\ (Len(requests') > Len(requests))
                 => (~loading /\ requests = <<>> /\ loading')
          /\ (loading /\ ~loading')
                 => (requests # <<>> /\ requests' = Tail(requests))
          /\ (inputMode' # inputMode \/ selectedFile' # selectedFile
                  \/ accessions' # accessions)
                 => UNCHANGED <<loading, requests>>]_vars

\* while a request for the accessions is out the tab has been switched and
\* a file selected: the one request is still out and the button disabled
C29_Witness ==
    /\ pc = "page"
    /\ loading
    /\ Len(requests) = 1
    /\ requests[1].url = "/api/analyze"
    /\ inputMode = "fasta"
    /\ selectedFile # NoFile
    /\ analyzeDisabled

-----------------------------------------------------------------------------
(* Error banner and results section *)

\* C30 as claimed: in every state of the page, whatever the order of
\* handleAnalyze, the answers, handleFileChange, clearFile and the tab
\* switches, error is empty or results is null: the error banner and the
\* results section are never shown together.
C30_ErrorOrResults ==
    pc = "page" => (error = NoError \/ results = NoResults)

\* the messages of handleFileChange for a file it refuses
RefusedFileMessages ==
    {FileTooLarge} \cup {invalidFormat(file.name) : file \in Files}

\* C30: in every state of the page an error shown beside results is a
\* message of handleFileChange for a refused file; the messages of
\* handleAnalyze (too few accessions, no file, the failure of the request)
\* are never shown together with results.
C30_OnlyFileErrorsBesideResults ==
    (pc = "page" /\ error # NoError /\ results # NoResults)
        => (error \in RefusedFileMessages /\ inputMode = "fasta")

\* results are shown and a file too large has been refused
C30_Witness ==
    /\ pc = "page"
    /\ results \in ResponseData
    /\ error = FileTooLarge
    /\ selectedFile = NoFile
    /\ ~loading

====
